---- MODULE Spec2Model ----
(***************************************************************************)
(* The tool-calling orchestration loop of the Gemini agent                 *)
(* (src/agent/gemini_agent.py): GeminiAgent.run, execute_function_call and *)
(* the pre-turn recall of src/tools/memory_manager.py.                     *)
(*                                                                         *)
(* A turn of the conversation is [role, parts]; a part is one of           *)
(*   [text |-> s]                                                          *)
(*   [function_call |-> [name |-> n, args |-> a]]                          *)
(*   [function_response |-> [name |-> n, response |-> [result |-> r]]]     *)
(* A tool result r is a mapping: it is an error result iff "error" is one  *)
(* of its keys.                                                            *)
(***************************************************************************)
EXTENDS Integers, Sequences, FiniteSets, TLC

VARIABLES
    pc,                  \* position of run(): start, input, recall, context, user,
                         \* loop, parts, append_model, append_function, after, done
    history,             \* self.history
    store,               \* documents of the agent_memory collection, oldest first
    user_input,          \* local of run()
    recalled_memories,   \* local of run()
    iteration,           \* local of run()
    response_part,       \* local of run(): the parts of the current response
    part_idx,            \* position of the for loop over response_part
    has_function_calls,  \* local of run()
    function_result,     \* local of run()
    \* observations of the run, not state of the program
    inputs_read,         \* console.input calls of the session
    calls_emitted,       \* tool-call parts the model has emitted in the session
    model_calls,         \* generate_content calls of the current user turn
    tool_execs,          \* execute_function_call calls of the current user turn
    handler_calls,       \* handlers invoked in the current user turn
    recall_calls,        \* memory.recall calls of the current user turn
    notices,             \* limit-reached notices of the current user turn
    errors,              \* "System Agent error" reports of the session
    outcome,             \* idle, running, break, exhausted, error: the current turn
    script,              \* per response of the current turn, its number of tool calls
    mark,                \* Len(history) when the current response was received
    turn_start,          \* Len(history) when the current input was accepted
    \* the memory manager used on its own (remember, forget, recall)
    mem_log,             \* the last two calls made on the memory manager
    mem_ops,             \* calls made on the memory manager
    writers,             \* the remember calls in progress of concurrent writers
    \* the environment of the tools and of the prompt
    running,             \* the tool invocation that does I/O: name, position, time waited
    trash,               \* the files of the trash directory, with their age in days
    cleaned,             \* the last clean_old_trash_files call and what it did
    input_closed         \* whether the input stream has ended (every read raises)

codeVars == <<pc, history, store, user_input, recalled_memories, iteration,
              response_part, part_idx, has_function_calls, function_result>>
obsVars == <<inputs_read, calls_emitted, model_calls, tool_execs, handler_calls,
             recall_calls, notices, errors, outcome, script, mark, turn_start>>
memVars == <<mem_log, mem_ops, writers>>
envVars == <<running, trash, cleaned, input_closed>>
vars == <<codeVars, obsVars, memVars, envVars>>

(***************************************************************************)
(* Bounds of the model.                                                    *)
(***************************************************************************)
\* config.MAX_ITERATIONS is read from the environment (default 15); the model
\* runs the loop with a small ceiling.
MAX_ITERATIONS == 3
\* console.input calls in one session
MaxInputs == 2
\* tool-call parts the scripted model emits in one session
MaxToolCalls == 3

\* recall(query, top_n=3)
RecallTopN == 3

(***************************************************************************)
(* Configuration and registry.                                             *)
(***************************************************************************)
function_map ==
    {"check_trash_bin", "clean_old_trash_files", "read_file_content",
     "write_file_content", "list_directory_contents", "find_files", "search_text",
     "create_mysql_database", "execute_mysql_command",
     "analyze_mysql_database_structure", "list_mysql_databases",
     "get_system_info", "run_python_script", "analyze_python_code",
     "send_system_notification", "execute_cli_command",
     "fetch_url_content", "remember_fact", "forget"}

\* a schema that leaves one handler out
ToolsWithoutForget == function_map \ {"forget"}

\* the names of the function declarations of _setup_tools, in the order declared
tools ==
    {"check_trash_bin", "clean_old_trash_files", "read_file_content",
     "write_file_content", "list_directory_contents", "find_files", "search_text",
     "create_mysql_database", "execute_mysql_command",
     "analyze_mysql_database_structure", "list_mysql_databases",
     "get_system_info", "run_python_script", "analyze_python_code",
     "send_system_notification", "execute_cli_command",
     "fetch_url_content", "remember_fact", "forget"}

QuitWords == {"quit", "exit", "bye"}

\* str.lower() on the inputs of the model
Lower(s) ==
    CASE s = "QUIT" -> "quit"
      [] s = "Bye" -> "bye"
      [] OTHER -> s

\* str.strip() on the inputs of the model
Strip(s) ==
    CASE s = " " -> ""
      [] OTHER -> s

UserInputs == {"hello", "QUIT", "exit", " ", ""}

(***************************************************************************)
(* Parts and turns.                                                        *)
(***************************************************************************)
NoArgs == <<>>

TextOf(s) == [text |-> s]
CallOf(n, a) == [function_call |-> [name |-> n, args |-> a]]

IsCall(part) == "function_call" \in DOMAIN part
\* `hasattr(part, 'text') and part.text`: a text part whose text is not empty
IsText(part) == "text" \in DOMAIN part /\ part.text # ""

Turn(role, part) == [role |-> role, parts |-> <<part>>]

ResponseTurn(name, result) ==
    Turn("function",
         [function_response |-> [name |-> name, response |-> [result |-> result]]])

SeedTurns ==
    << Turn("user", TextOf("You are an AI assistant with memory capabilities.")),
       Turn("model", TextOf("I am AICOOK, your personal AI assistant. I can learn from our interactions. How can I help you today?")) >>

\* the result turn filed under another tool's name
TurnsOfCallWrongName(part, result) ==
    << Turn("model", part), ResponseTurn("other_tool", result) >>

\* the result turn appended before the request turn
TurnsOfCallSwapped(part, result) ==
    << ResponseTurn(part.function_call.name, result), Turn("model", part) >>

\* the two appends of one tool call, in the order run() makes them
TurnsOfCall(part, result) ==
    << Turn("model", part), ResponseTurn(part.function_call.name, result) >>

RECURSIVE Join(_)
\* "\n".join(lines)
Join(lines) ==
    IF lines = <<>> THEN ""
    ELSE IF Len(lines) = 1 THEN lines[1]
    ELSE lines[1] \o "\n" \o Join(Tail(lines))

MemoryTurn(recalled) == Turn("user", TextOf("Relevant memories:\n" \o Join(recalled)))

(***************************************************************************)
(* The memory store as recall sees it.                                     *)
(***************************************************************************)
\* cosine similarity of two texts' embeddings, in hundredths
Sim(a, b) ==
    IF a = b THEN 100
    ELSE IF {a, b} = {"likes tea", "enjoys tea"} THEN 90
    ELSE IF {a, b} = {"hello", "likes tea"} THEN 30
    ELSE IF {a, b} = {"drinks coffee", "likes tea"} THEN 60
    ELSE IF {a, b} = {"drinks coffee", "enjoys tea"} THEN 50
    ELSE 20

RECURSIVE Ranked(_, _)
\* the documents of docs, most similar to query first (ties: oldest first)
Ranked(docs, query) ==
    IF docs = <<>> THEN <<>>
    ELSE LET best == CHOOSE i \in 1..Len(docs) :
                        \A j \in 1..Len(docs) :
                            \/ Sim(query, docs[i]) > Sim(query, docs[j])
                            \/ Sim(query, docs[i]) = Sim(query, docs[j]) /\ i <= j
             rest == [k \in 1..(Len(docs) - 1) |-> IF k < best THEN docs[k] ELSE docs[k + 1]]
         IN  <<docs[best]>> \o Ranked(rest, query)

\* collection.query(query_embeddings=[e], n_results=n)["documents"][0]
Query(docs, query, n) ==
    LET r == Ranked(docs, query)
    IN  SubSeq(r, 1, IF Len(r) < n THEN Len(r) ELSE n)

\* MemoryManager.recall: ok is FALSE when encode or query raises
RecallResult(docs, query, ok) ==
    IF Len(docs) = 0 THEN <<>>
    ELSE IF ok THEN Query(docs, query, RecallTopN)
    ELSE <<>>

\* what earlier sessions may have left in the persistent collection
InitStores == { <<>>, <<"owns a cat", "likes tea">> }

(***************************************************************************)
(* Tool handlers.                                                          *)
(***************************************************************************)
\* What calling function_map[name](**args) can do: return a mapping, or raise.
\* read_file_content(file_path, max_lines=500) raises TypeError at the call when
\* file_path is missing; otherwise it returns its payload or its own error mapping.
HandlerOutcomes(name, args) ==
    IF name = "read_file_content"
    THEN IF "file_path" \in DOMAIN args
         THEN { [raised |-> FALSE,
                 value |-> [file_path |-> args.file_path, content |-> "data"]],
                [raised |-> FALSE,
                 value |-> [error |-> "File not found: " \o args.file_path]] }
         ELSE { [raised |-> TRUE,
                 value |-> "read_file_content() missing 1 required positional argument: 'file_path'"] }
    ELSE { [raised |-> FALSE, value |-> [status |-> "ok"]],
           [raised |-> TRUE, value |-> "handler failed"] }

\* a lookup made inside the try block with no membership test: the KeyError of an
\* unregistered name is reported as an execution error
ExecuteResultKeyError(name, o) ==
    IF name \in function_map
    THEN IF o.raised
         THEN [error |-> "Function execution error: " \o o.value]
         ELSE o.value
    ELSE [error |-> "Function execution error: '" \o name \o "'"]

\* execute_function_call, given what the handler did (o is not used for a name
\* that is not registered)
ExecuteResult(name, o) ==
    IF name \in function_map
    THEN IF o.raised
         THEN [error |-> "Function execution error: " \o o.value]
         ELSE o.value
    ELSE [error |-> "Unknown function: " \o name]

\* whether execute_function_call invokes a handler for this name
InvokesHandler(name) == name \in function_map

(***************************************************************************)
(* The scripted model: what generate_content may return.                   *)
(***************************************************************************)
TextPart == TextOf("answer")
BlankPart == TextOf("")
CallRead == CallOf("read_file_content", [file_path |-> "a.txt"])
CallReadNoArgs == CallOf("read_file_content", NoArgs)
CallUnknown == CallOf("nonexistent_tool", NoArgs)
CallUnknownArgs == CallOf("delete_everything", [path |-> "a.txt"])

Responses ==
    { <<>>, <<TextPart>>, <<CallRead>>, <<CallUnknownArgs>>,
      <<TextPart, CallReadNoArgs, BlankPart, CallUnknown>> }

RECURSIVE NumCalls(_)
NumCalls(parts) ==
    IF parts = <<>> THEN 0
    ELSE (IF IsCall(Head(parts)) THEN 1 ELSE 0) + NumCalls(Tail(parts))

(***************************************************************************)
(* Initial state: a constructed agent, run() not yet called.               *)
(***************************************************************************)
\* no tool invocation under way
NoInvocation == [name |-> "", at |-> "idle", elapsed |-> 0, result |-> <<>>]

\* no tool invocation under way, an empty trash directory, an open input stream
EnvIdle ==
    /\ running = NoInvocation
    /\ trash = {}
    /\ cleaned = <<>>
    /\ input_closed = FALSE

Init ==
    /\ pc = "start"
    /\ history = <<>>
    /\ store \in InitStores
    /\ user_input = ""
    /\ recalled_memories = <<>>
    /\ iteration = 0
    /\ response_part = <<>>
    /\ part_idx = 1
    /\ has_function_calls = FALSE
    /\ function_result = <<>>
    /\ inputs_read = 0
    /\ calls_emitted = 0
    /\ model_calls = 0
    /\ tool_execs = 0
    /\ handler_calls = 0
    /\ recall_calls = 0
    /\ notices = 0
    /\ errors = 0
    /\ outcome = "idle"
    /\ script = <<>>
    /\ mark = 0
    /\ turn_start = 0
    /\ mem_log = <<>>
    /\ mem_ops = 0
    /\ writers = <<>>
    /\ EnvIdle

(***************************************************************************)
(* Decisions of run().                                                     *)
(***************************************************************************)
\* a ceiling that lets one more round through
LoopConditionInclusive(it) == it <= MAX_ITERATIONS

\* a ceiling compared one round early
LoopConditionOffByOne(it) == it + 1 < MAX_ITERATIONS

\* `while iteration < config.MAX_ITERATIONS`
LoopCondition(it) == it < MAX_ITERATIONS

\* a loop that is left only by its while condition
BreaksLoopNever(has_fc) == FALSE

\* `if not has_function_calls: break`
BreaksLoop(has_fc) == ~has_fc

\* `if iteration >= config.MAX_ITERATIONS`: the limit-reached notice
LimitReached(it) == it >= MAX_ITERATIONS

\* a for loop left after its first part
EndOfResponseAfterFirst(parts, idx) == idx > 1 \/ idx > Len(parts)

\* `for part in response_part` has no part left
EndOfResponse(parts, idx) == idx > Len(parts)

\* the parts taken last first
PartAtReversed(parts, idx) == parts[Len(parts) + 1 - idx]

\* the part the for loop handles at position idx
PartAt(parts, idx) == parts[idx]

\* a lookup with no membership test and outside the try block: the KeyError of an
\* unregistered name leaves execute_function_call
PropagatesKeyError(name, o) == name \notin function_map

\* no try/except around the handler call: what the handler raises leaves
\* execute_function_call
PropagatesUncaught(name, o) == name \in function_map /\ o.raised

\* whether a handler's exception leaves execute_function_call: the try/except
\* around the handler call catches every Exception
Propagates(name, o) == FALSE

\* the reserved words compared without lower()
IsQuitCaseSensitive(u) == u \in QuitWords

\* `if user_input.lower() in ['quit', 'exit', 'bye']`
IsQuit(u) == Lower(u) \in QuitWords

\* only the empty string taken as blank
IsBlankEmptyOnly(u) == u = ""

\* `if not user_input.strip()`
IsBlank(u) == Strip(u) = ""

\* a counter kept from the previous user turn
IterationKept(it) == it

\* `iteration = 0` before the while loop of each user turn
IterationAtTurnStart(it) == 0

\* no try/except in recall: a failing encode or query leaves it
RecallPropagatesFailure(docs, ok) == Len(docs) # 0 /\ ~ok

\* whether an exception leaves recall: its whole body is in a try/except that
\* returns []
RecallPropagates(docs, ok) == FALSE

\* the literal message appended before the recalled context
TurnsOfInputMessageFirst(recalled, input) ==
    <<Turn("user", TextOf(input))>>
        \o (IF recalled # <<>> THEN <<MemoryTurn(recalled)>> ELSE <<>>)

\* the appends for an accepted input, in the order run() makes them
TurnsOfInput(recalled, input) ==
    (IF recalled # <<>> THEN <<MemoryTurn(recalled)>> ELSE <<>>)
        \o <<Turn("user", TextOf(input))>>

\* the turns of the failed user turn dropped again
HistoryRolledBack(h, start) == SubSeq(h, 1, start)

\* history after `except Exception` has reported an error
HistoryOnError(h, start) == h

\* an exception handler that never gives control back
AfterErrorHangs == "hung"

\* an exception that ends run()
AfterErrorTerminates == "done"

\* where run() goes after `except Exception`: back to the while loop's input
AfterError == "input"

(***************************************************************************)
(* run(): lines 399-401.                                                   *)
(***************************************************************************)
RunStart ==
    /\ pc = "start"
    /\ history' = history \o SeedTurns
    /\ pc' = "input"
    /\ UNCHANGED <<store, user_input, recalled_memories, iteration, response_part,
                   part_idx, has_function_calls, function_result>>
    /\ UNCHANGED obsVars
    /\ UNCHANGED <<memVars, envVars>>

(***************************************************************************)
(* Lines 405-412: read a line; quit words end the session, blank input     *)
(* prompts again, anything else starts a user turn.                        *)
(***************************************************************************)
ReadInput ==
    /\ pc = "input"
    /\ ~input_closed
    /\ inputs_read < MaxInputs
    /\ \E u \in UserInputs :
        /\ user_input' = u
        /\ inputs_read' = inputs_read + 1
        /\ IF IsQuit(u)
           THEN /\ pc' = "done"
                /\ UNCHANGED <<model_calls, tool_execs, handler_calls, recall_calls,
                               notices, outcome, script, turn_start>>
           ELSE IF IsBlank(u)
           THEN /\ pc' = "input"
                /\ UNCHANGED <<model_calls, tool_execs, handler_calls, recall_calls,
                               notices, outcome, script, turn_start>>
           ELSE /\ pc' = "recall"
                /\ model_calls' = 0
                /\ tool_execs' = 0
                /\ handler_calls' = 0
                /\ recall_calls' = 0
                /\ notices' = 0
                /\ outcome' = "running"
                /\ script' = <<>>
                /\ turn_start' = Len(history)
    /\ UNCHANGED <<history, store, recalled_memories, iteration, response_part,
                   part_idx, has_function_calls, function_result>>
    /\ UNCHANGED <<calls_emitted, errors, mark>>
    /\ UNCHANGED <<memVars, envVars>>

(***************************************************************************)
(* Line 415: recalled_memories = self.memory.recall(user_input).           *)
(***************************************************************************)
Recall ==
    /\ pc = "recall"
    /\ \E ok \in BOOLEAN :
        IF RecallPropagates(store, ok)
        THEN /\ errors' = errors + 1
             /\ outcome' = "error"
             /\ history' = HistoryOnError(history, turn_start)
             /\ pc' = AfterError
             /\ UNCHANGED recalled_memories
        ELSE /\ recalled_memories' = RecallResult(store, user_input, ok)
             /\ pc' = IF recalled_memories' # <<>> THEN "context" ELSE "user"
             /\ UNCHANGED <<errors, outcome, history>>
    /\ recall_calls' = recall_calls + 1
    /\ UNCHANGED <<store, user_input, iteration, response_part, part_idx,
                   has_function_calls, function_result>>
    /\ UNCHANGED <<inputs_read, calls_emitted, model_calls, tool_execs, handler_calls,
                   notices, script, mark, turn_start>>
    /\ UNCHANGED <<memVars, envVars>>

(***************************************************************************)
(* Lines 416-418: the 'Relevant memories' turn.                            *)
(***************************************************************************)
AppendMemoryContext ==
    /\ pc = "context"
    /\ history' = Append(history, TurnsOfInput(recalled_memories, user_input)[1])
    /\ pc' = "user"
    /\ UNCHANGED <<store, user_input, recalled_memories, iteration, response_part,
                   part_idx, has_function_calls, function_result>>
    /\ UNCHANGED obsVars
    /\ UNCHANGED <<memVars, envVars>>

(***************************************************************************)
(* Lines 420-425: the user's message; iteration = 0.                       *)
(***************************************************************************)
AppendUserMessage ==
    /\ pc = "user"
    /\ LET turns == TurnsOfInput(recalled_memories, user_input)
       IN  history' = Append(history, turns[Len(turns)])
    /\ iteration' = IterationAtTurnStart(iteration)
    /\ pc' = "loop"
    /\ UNCHANGED <<store, user_input, recalled_memories, response_part, part_idx,
                   has_function_calls, function_result>>
    /\ UNCHANGED obsVars
    /\ UNCHANGED <<memVars, envVars>>

(***************************************************************************)
(* Lines 427-432: one more round; the model returns a response.            *)
(***************************************************************************)
ModelCall ==
    /\ pc = "loop"
    /\ LoopCondition(iteration)
    /\ iteration' = iteration + 1
    /\ \E r \in Responses :
        /\ calls_emitted + NumCalls(r) <= MaxToolCalls
        /\ response_part' = r
        /\ calls_emitted' = calls_emitted + NumCalls(r)
        /\ script' = Append(script, NumCalls(r))
    /\ has_function_calls' = FALSE
    /\ part_idx' = 1
    /\ model_calls' = model_calls + 1
    /\ mark' = Len(history)
    /\ pc' = "parts"
    /\ UNCHANGED <<history, store, user_input, recalled_memories, function_result>>
    /\ UNCHANGED <<inputs_read, tool_execs, handler_calls, recall_calls, notices,
                   errors, outcome, turn_start>>
    /\ UNCHANGED <<memVars, envVars>>

(***************************************************************************)
(* Lines 430-432 raising (generate_content, or candidates[0].content.parts)*)
(* and lines 468-469: the error is printed and the while loop goes on.     *)
(***************************************************************************)
ModelCallRaises ==
    /\ pc = "loop"
    /\ LoopCondition(iteration)
    /\ iteration' = iteration + 1
    /\ model_calls' = model_calls + 1
    /\ errors' = errors + 1
    /\ outcome' = "error"
    /\ history' = HistoryOnError(history, turn_start)
    /\ pc' = AfterError
    /\ UNCHANGED <<store, user_input, recalled_memories, response_part, part_idx,
                   has_function_calls, function_result>>
    /\ UNCHANGED <<inputs_read, calls_emitted, tool_execs, handler_calls, recall_calls,
                   notices, script, mark, turn_start>>
    /\ UNCHANGED <<memVars, envVars>>

(***************************************************************************)
(* Lines 435-439: a tool-call part; execute_function_call (382-396).       *)
(***************************************************************************)
ExecuteFunctionCall ==
    /\ pc = "parts"
    /\ ~EndOfResponse(response_part, part_idx)
    /\ IsCall(PartAt(response_part, part_idx))
    /\ LET call == PartAt(response_part, part_idx).function_call
       IN  /\ has_function_calls' = TRUE
           /\ tool_execs' = tool_execs + 1
           /\ handler_calls' = handler_calls + (IF InvokesHandler(call.name) THEN 1 ELSE 0)
           /\ \E o \in HandlerOutcomes(call.name, call.args) :
                IF Propagates(call.name, o)
                THEN /\ errors' = errors + 1
                     /\ outcome' = "error"
                     /\ history' = HistoryOnError(history, turn_start)
                     /\ pc' = AfterError
                     /\ UNCHANGED function_result
                ELSE /\ function_result' = ExecuteResult(call.name, o)
                     /\ pc' = "append_model"
                     /\ UNCHANGED <<errors, outcome, history>>
    /\ UNCHANGED <<store, user_input, recalled_memories, iteration, response_part,
                   part_idx>>
    /\ UNCHANGED <<inputs_read, calls_emitted, model_calls, recall_calls, notices,
                   script, mark, turn_start>>
    /\ UNCHANGED <<memVars, envVars>>

(***************************************************************************)
(* Line 441: the model turn holding the tool-call part.                    *)
(***************************************************************************)
AppendModelTurn ==
    /\ pc = "append_model"
    /\ history' = Append(history,
                         TurnsOfCall(PartAt(response_part, part_idx), function_result)[1])
    /\ pc' = "append_function"
    /\ UNCHANGED <<store, user_input, recalled_memories, iteration, response_part,
                   part_idx, has_function_calls, function_result>>
    /\ UNCHANGED obsVars
    /\ UNCHANGED <<memVars, envVars>>

(***************************************************************************)
(* Lines 442-452: the function turn holding the result.                    *)
(***************************************************************************)
AppendFunctionTurn ==
    /\ pc = "append_function"
    /\ history' = Append(history,
                         TurnsOfCall(PartAt(response_part, part_idx), function_result)[2])
    /\ part_idx' = part_idx + 1
    /\ pc' = "parts"
    /\ UNCHANGED <<store, user_input, recalled_memories, iteration, response_part,
                   has_function_calls, function_result>>
    /\ UNCHANGED obsVars
    /\ UNCHANGED <<memVars, envVars>>

(***************************************************************************)
(* Lines 454-457: a text part is printed and appended as a model turn.     *)
(***************************************************************************)
HandleTextPart ==
    /\ pc = "parts"
    /\ ~EndOfResponse(response_part, part_idx)
    /\ ~IsCall(PartAt(response_part, part_idx))
    /\ IsText(PartAt(response_part, part_idx))
    /\ history' = Append(history, Turn("model", TextOf(PartAt(response_part, part_idx).text)))
    /\ part_idx' = part_idx + 1
    /\ UNCHANGED <<pc, store, user_input, recalled_memories, iteration, response_part,
                   has_function_calls, function_result>>
    /\ UNCHANGED obsVars
    /\ UNCHANGED <<memVars, envVars>>

(***************************************************************************)
(* A part that is neither a tool call nor non-empty text is passed over.   *)
(***************************************************************************)
SkipPart ==
    /\ pc = "parts"
    /\ ~EndOfResponse(response_part, part_idx)
    /\ ~IsCall(PartAt(response_part, part_idx))
    /\ ~IsText(PartAt(response_part, part_idx))
    /\ part_idx' = part_idx + 1
    /\ UNCHANGED <<pc, history, store, user_input, recalled_memories, iteration,
                   response_part, has_function_calls, function_result>>
    /\ UNCHANGED obsVars
    /\ UNCHANGED <<memVars, envVars>>

(***************************************************************************)
(* Lines 459-460: after the last part, break or go round again.            *)
(***************************************************************************)
EndOfParts ==
    /\ pc = "parts"
    /\ EndOfResponse(response_part, part_idx)
    /\ IF BreaksLoop(has_function_calls)
       THEN /\ pc' = "after"
            /\ outcome' = "break"
       ELSE /\ pc' = "loop"
            /\ UNCHANGED outcome
    /\ UNCHANGED <<history, store, user_input, recalled_memories, iteration,
                   response_part, part_idx, has_function_calls, function_result>>
    /\ UNCHANGED <<inputs_read, calls_emitted, model_calls, tool_execs, handler_calls,
                   recall_calls, notices, errors, script, mark, turn_start>>
    /\ UNCHANGED <<memVars, envVars>>

(***************************************************************************)
(* Line 427: the while condition fails.                                    *)
(***************************************************************************)
LoopExhausted ==
    /\ pc = "loop"
    /\ ~LoopCondition(iteration)
    /\ pc' = "after"
    /\ outcome' = "exhausted"
    /\ UNCHANGED <<history, store, user_input, recalled_memories, iteration,
                   response_part, part_idx, has_function_calls, function_result>>
    /\ UNCHANGED <<inputs_read, calls_emitted, model_calls, tool_execs, handler_calls,
                   recall_calls, notices, errors, script, mark, turn_start>>
    /\ UNCHANGED <<memVars, envVars>>

(***************************************************************************)
(* Lines 462-463: the limit-reached notice; back to the input prompt.      *)
(***************************************************************************)
AfterLoop ==
    /\ pc = "after"
    /\ notices' = notices + (IF LimitReached(iteration) THEN 1 ELSE 0)
    /\ pc' = "input"
    /\ UNCHANGED <<history, store, user_input, recalled_memories, iteration,
                   response_part, part_idx, has_function_calls, function_result>>
    /\ UNCHANGED <<inputs_read, calls_emitted, model_calls, tool_execs, handler_calls,
                   recall_calls, errors, outcome, script, mark, turn_start>>
    /\ UNCHANGED <<memVars, envVars>>

Next ==
    \/ RunStart
    \/ ReadInput
    \/ Recall
    \/ AppendMemoryContext
    \/ AppendUserMessage
    \/ ModelCall
    \/ ModelCallRaises
    \/ ExecuteFunctionCall
    \/ AppendModelTurn
    \/ AppendFunctionTurn
    \/ HandleTextPart
    \/ SkipPart
    \/ EndOfParts
    \/ LoopExhausted
    \/ AfterLoop

Spec == Init /\ [][Next]_vars

(***************************************************************************)
(* Lines 465-467: KeyboardInterrupt raised inside the while loop, at any   *)
(* position of it (at the prompt, in a model call, in a tool execution,    *)
(* between two appends): the goodbye is printed and the loop is left.      *)
(***************************************************************************)
KeyboardInterrupt ==
    /\ pc \notin {"start", "done"}
    /\ pc' = "done"
    /\ outcome' = "interrupted"
    /\ UNCHANGED <<history, store, user_input, recalled_memories, iteration,
                   response_part, part_idx, has_function_calls, function_result>>
    /\ UNCHANGED <<inputs_read, calls_emitted, model_calls, tool_execs, handler_calls,
                   recall_calls, notices, errors, script, mark, turn_start>>
    /\ UNCHANGED <<memVars, envVars>>

NextInterrupt ==
    \/ Next
    \/ KeyboardInterrupt

\* run() with an external interrupt
SpecInterrupt == Init /\ [][NextInterrupt]_vars

(***************************************************************************)
(* Properties.                                                             *)
(***************************************************************************)
RECURSIVE Sum(_)
Sum(ns) == IF ns = <<>> THEN 0 ELSE Head(ns) + Sum(Tail(ns))

IsPrefix(a, b) == Len(a) <= Len(b) /\ SubSeq(b, 1, Len(a)) = a

\* the tool call the for loop is at, when it is at a tool-call part
AtCall ==
    /\ pc = "parts"
    /\ part_idx <= Len(response_part)
    /\ IsCall(PartAt(response_part, part_idx))

CurrentCall == PartAt(response_part, part_idx).function_call

\* a step in which execute_function_call was invoked
ExecStep == tool_execs' = tool_execs + 1

\* C1: execute_function_call on a name that is not a key of function_map returns
\* exactly {"error": "Unknown function: <name>"}, invokes no handler and does not
\* raise (run() goes on to append the turns of the call), whatever the arguments.
C1_UnknownFunction ==
    [][ (AtCall /\ ExecStep /\ CurrentCall.name \notin function_map)
        => /\ function_result' = [error |-> "Unknown function: " \o CurrentCall.name]
           /\ handler_calls' = handler_calls
           /\ errors' = errors
           /\ pc' = "append_model" ]_vars

C1_Witness ==
    /\ pc = "append_model"
    /\ PartAt(response_part, part_idx) = CallUnknown
    /\ function_result = [error |-> "Unknown function: nonexistent_tool"]

\* C2: when the handler of a registered tool raises, execute_function_call returns
\* {"error": "Function execution error: <message>"} and nothing propagates (no
\* error is reported by run(), the turn goes on); and every tool-call part of a
\* response is executed: at the end of a round the executions of the turn are as
\* many as the tool-call parts received, so the parts after a failed call were
\* neither skipped nor the turn aborted.
C2_HandlerErrorContained ==
    /\ [][ (AtCall /\ ExecStep /\ CurrentCall.name \in function_map)
           => /\ \E o \in HandlerOutcomes(CurrentCall.name, CurrentCall.args) :
                    function_result' =
                        IF o.raised
                        THEN [error |-> "Function execution error: " \o o.value]
                        ELSE o.value
              /\ errors' = errors
              /\ outcome' = outcome
              /\ pc' = "append_model" ]_vars
    /\ []( (pc \in {"loop", "after"} /\ outcome # "error")
             => tool_execs = Sum(script) )

\* the part after a call whose handler raised is being executed
C2_Witness ==
    /\ pc = "append_model"
    /\ part_idx = 4
    /\ response_part[2] = CallReadNoArgs
    /\ history[Len(history)] =
         ResponseTurn("read_file_content",
                      [error |-> "Function execution error: read_file_content() missing 1 required positional argument: 'file_path'"])

\* C3: every function-role turn of history has an earlier model-role turn that
\* carries a tool-call request with the same tool name.
C3_TurnOrdering ==
    \A i \in 1..Len(history) :
        history[i].role = "function"
        => \E j \in 1..(i - 1) :
              /\ history[j].role = "model"
              /\ IsCall(history[j].parts[1])
              /\ history[j].parts[1].function_call.name
                    = history[i].parts[1].function_response.name

C3_Witness ==
    \E i \in 1..Len(history) :
        /\ history[i].role = "function"
        /\ history[i].parts[1].function_response.name = "nonexistent_tool"

\* the script of a model that answers n times with exactly one tool call and
\* then with a response holding none, read from the front of the turn's responses
OnesThenZero(n) ==
    /\ Len(script) >= n + 1
    /\ \A i \in 1..n : script[i] = 1
    /\ script[n + 1] = 0

\* C4: for a scripted model that returns N responses with exactly one tool-call
\* part each and then a response with none, N + 1 <= MAX_ITERATIONS, the user turn
\* makes exactly N + 1 model calls and N tool executions, leaves the loop by its
\* break (no exception, the while condition not exhausted) and is back at the
\* input prompt.
C4_ScriptedTurn ==
    \A n \in 0..(MAX_ITERATIONS - 1) :
        OnesThenZero(n)
        => /\ Len(script) = n + 1
           /\ model_calls = n + 1
           /\ tool_execs = n
           /\ pc \in {"parts", "after", "input", "done"}
           /\ outcome \in {"running", "break"}
           /\ pc \in {"input", "done"} => outcome = "break"

C4_Witness ==
    /\ pc = "input"
    /\ OnesThenZero(MAX_ITERATIONS - 1)
    /\ model_calls = MAX_ITERATIONS
    /\ tool_execs = MAX_ITERATIONS - 1
    /\ outcome = "break"

\* every response of the current turn held a tool call, and none was refused
AlwaysCalls ==
    /\ outcome \notin {"idle", "error"}
    /\ \A i \in 1..Len(script) : script[i] >= 1

\* C5: for a scripted model whose every response holds a tool-call part, the user
\* turn makes exactly MAX_ITERATIONS model calls, then the limit-reached notice is
\* emitted and run() is back at the input prompt, without an exception.
C5_LimitReached ==
    AlwaysCalls
    => /\ model_calls <= MAX_ITERATIONS
       /\ pc \in {"after", "input", "done"}
            => /\ model_calls = MAX_ITERATIONS
               /\ outcome = "exhausted"
       /\ pc \in {"input", "done"} => notices = 1

C5_Witness ==
    /\ AlwaysCalls
    /\ pc = "input"
    /\ Len(script) = MAX_ITERATIONS
    /\ notices = 1

\* C6: a user turn that ends on a response with no tool-call part ends without
\* the limit-reached notice, at every iteration number up to MAX_ITERATIONS; and
\* no model call follows that response.
C6_NoNoticeOnSuccess ==
    (script # <<>> /\ script[Len(script)] = 0)
    => /\ notices = 0
       /\ \A i \in 1..(Len(script) - 1) : script[i] >= 1

RECURSIVE Reflects(_, _)
\* turns are what run() appends for parts, in order: a model turn holding the
\* request and a function turn of the same name per tool call, a model turn per
\* non-empty text, nothing for any other part
Reflects(turns, parts) ==
    IF parts = <<>> THEN turns = <<>>
    ELSE LET p == Head(parts)
         IN  IF IsCall(p)
             THEN /\ Len(turns) >= 2
                  /\ turns[1] = Turn("model", p)
                  /\ turns[2].role = "function"
                  /\ "function_response" \in DOMAIN turns[2].parts[1]
                  /\ turns[2].parts[1].function_response.name = p.function_call.name
                  /\ Reflects(SubSeq(turns, 3, Len(turns)), Tail(parts))
             ELSE IF IsText(p)
             THEN /\ Len(turns) >= 1
                  /\ turns[1] = Turn("model", TextOf(p.text))
                  /\ Reflects(Tail(turns), Tail(parts))
             ELSE Reflects(turns, Tail(parts))

SinceResponse == SubSeq(history, mark + 1, Len(history))

\* C7: the parts of a response are handled in the order received and their turns
\* appended before the next part is handled: whenever the loop is at a part (about
\* to execute it, if it is a tool call), history since the response holds exactly
\* the turns of the parts before it, in order; and at the next model call it holds
\* the turns of all the parts.
C7_PartsInOrder ==
    /\ pc = "parts"
         => Reflects(SinceResponse, SubSeq(response_part, 1, part_idx - 1))
    /\ (pc = "loop" /\ iteration > 0) => Reflects(SinceResponse, response_part)

\* the loop is about to execute the second tool call of a response
C7_Witness ==
    /\ AtCall
    /\ part_idx = 4
    /\ NumCalls(SubSeq(response_part, 1, 3)) = 1
    /\ Len(SinceResponse) = 3

C9_AppendOnly == [][IsPrefix(history, history')]_vars

\* a turn that failed after turns had been appended for it
C9_Witness ==
    /\ pc = "input"
    /\ outcome = "error"
    /\ tool_execs > 0
    /\ Len(history) > turn_start + 2

\* C10: when the model call (or reading its response) raises, run() does not end:
\* the error is reported once, run() is at the input prompt, history is as it was;
\* and no model call or tool execution follows for that turn.
C10_ModelFailure ==
    /\ [][ (outcome # "error" /\ outcome' = "error")
           => /\ pc' = "input"
              /\ errors' = errors + 1
              /\ history' = history ]_vars
    /\ [][ (outcome = "error" /\ outcome' = "error")
           => /\ model_calls' = model_calls
              /\ tool_execs' = tool_execs
              /\ IsPrefix(history, history') ]_vars

\* an input accepted and processed after a failed turn
C10_Witness ==
    /\ errors >= 1
    /\ outcome = "running"
    /\ pc = "parts"
    /\ model_calls = 1

(***************************************************************************)
(* The memory manager (src/tools/memory_manager.py) and the tools called   *)
(* on their own through execute_function_call.  Similarities are in        *)
(* hundredths.                                                             *)
(***************************************************************************)
\* MemoryManager(similarity_threshold=0.85)
SimilarityThreshold == 85
\* _is_duplicate(fact, top_k=5)
DuplicateTopK == 5
\* forget(..., similarity_threshold=0.85, top_n=3)
ForgetThreshold == 85
ForgetTopN == 3

Facts == {"likes tea", "enjoys tea", "drinks coffee"}

\* _generate_id: the SHA-256 of the text, one key per text
GenerateId(fact) == "sha256(" \o fact \o ")"

\* the elements of a sequence
Range(q) == { q[i] : i \in 1..Len(q) }

\* a duplicate check that looks for the same text only
IsDuplicateExactOnly(docs, fact) == fact \in Range(docs)

\* a duplicate check that skips the query while the collection holds at most one
\* document
IsDuplicateSkipsSingle(docs, fact) ==
    /\ Len(docs) > 1
    /\ \E d \in Range(Query(docs, fact, DuplicateTopK)) :
          Sim(fact, d) >= SimilarityThreshold

\* MemoryManager._is_duplicate
IsDuplicate(docs, fact) ==
    /\ Len(docs) # 0
    /\ \E d \in Range(Query(docs, fact, DuplicateTopK)) :
          Sim(fact, d) >= SimilarityThreshold

\* an add that checks for a near-duplicate again and refuses when it finds one
AddUnlessDuplicate(docs, fact) ==
    IF IsDuplicate(docs, fact)
    THEN { [store |-> docs, raised |-> TRUE] }
    ELSE { [store |-> Append(docs, fact), raised |-> FALSE] }

\* collection.add(documents=[fact], ids=[GenerateId(fact)]): what it can do to the
\* collection and whether it raises. An id already present is not stored again:
\* depending on the chromadb release the call is ignored or raises.
AddOutcomes(docs, fact) ==
    IF \E d \in Range(docs) : GenerateId(d) = GenerateId(fact)
    THEN { [store |-> docs, raised |-> FALSE], [store |-> docs, raised |-> TRUE] }
    ELSE { [store |-> Append(docs, fact), raised |-> FALSE] }

\* MemoryManager.remember: the collections and results it can end with; ok is
\* FALSE when the embedding model or the collection raises before the add
RememberOutcomes(docs, fact, ok) ==
    IF ~ok
    THEN { [store |-> docs,
            result |-> [status |-> "error", message |-> "embedding failed"]] }
    ELSE IF IsDuplicate(docs, fact)
    THEN { [store |-> docs,
            result |-> [status |-> "skipped",
                        message |-> "Fact already exists (semantically similar)."]] }
    ELSE { [store |-> a.store,
            result |-> IF a.raised
                       THEN [status |-> "error", message |-> "ID already exists"]
                       ELSE [status |-> "success", message |-> "Remembered: " \o fact]]
           : a \in AddOutcomes(docs, fact) }

\* candidates searched among all the documents, not the top_n nearest
ForgetCandidatesAll(docs, fact, top_n) == Ranked(docs, fact)

\* the candidates forget looks at: the top_n nearest documents
ForgetCandidates(docs, fact, top_n) == Query(docs, fact, top_n)

\* the candidates at or above the threshold, nearest first
Matched(docs, fact, threshold, top_n) ==
    LET AtOrAbove(d) == Sim(fact, d) >= threshold
    IN  SelectSeq(ForgetCandidates(docs, fact, top_n), AtOrAbove)

\* `matched` as forget reports it
MatchRecords(facts, fact) ==
    [i \in 1..Len(facts) |->
        [fact |-> facts[i], similarity |-> Sim(fact, facts[i]), id |-> GenerateId(facts[i])]]

\* collection.delete(ids=[...]) for each of facts
DeleteDocs(docs, facts) ==
    LET Kept(d) == d \notin Range(facts)
    IN  SelectSeq(docs, Kept)

\* a preview that deletes like a confirmed call
DeletesAlways(confirm) == TRUE

\* `if confirm:` around collection.delete
Deletes(confirm) == confirm

\* MemoryManager.forget: the collection and result it ends with; ok is FALSE when
\* the embedding model or the query raises
ForgetOutcome(docs, fact, confirm, threshold, top_n, ok) ==
    IF ~ok
    THEN [store |-> docs,
          result |-> [status |-> "error",
                      message |-> "Failed during semantic forget: embedding failed"]]
    ELSE IF Len(docs) = 0
    THEN [store |-> docs,
          result |-> [status |-> "empty", message |-> "No memories to search."]]
    ELSE LET matched == Matched(docs, fact, threshold, top_n)
             after == IF Deletes(confirm) THEN DeleteDocs(docs, matched) ELSE docs
         IN  IF matched = <<>>
             THEN [store |-> after,
                   result |-> [status |-> "not_found",
                               message |-> "No similar memory found to forget."]]
             ELSE IF confirm
             THEN [store |-> after,
                   result |-> [status |-> "success", deleted_facts |-> matched]]
             ELSE [store |-> after,
                   result |-> [status |-> "match_found",
                               matches |-> MatchRecords(matched, fact)]]

\* send_system_notification: the platform and what subprocess.run did (returncode
\* 0, returncode not 0, raised) decide the mapping returned
NotificationResult(message, run) ==
    IF run = "unsupported"
    THEN [error |-> "Notifications not supported on Java"]
    ELSE IF run = "raised"
    THEN [error |-> "Failed to send notification: notify-send not found"]
    ELSE [message |-> message, title |-> "System Agent", platform |-> "Linux",
          success |-> (run = "zero"),
          error |-> IF run = "zero" THEN "None" ELSE "stderr of notify-send"]

\* a bound on the tool calls of one exploration
MaxMemOps == 4

Thresholds == {50, ForgetThreshold}
TopNs == {1, ForgetTopN}
Runs == {"zero", "nonzero", "raised", "unsupported"}

\* the last two calls, newest last
Logged(log, entry) ==
    IF Len(log) < 2 THEN Append(log, entry) ELSE <<log[2], entry>>

\* the agent constructed and idle, its collection empty
ToolsInit ==
    /\ pc = "start"
    /\ history = <<>>
    /\ store = <<>>
    /\ user_input = ""
    /\ recalled_memories = <<>>
    /\ iteration = 0
    /\ response_part = <<>>
    /\ part_idx = 1
    /\ has_function_calls = FALSE
    /\ function_result = <<>>
    /\ inputs_read = 0
    /\ calls_emitted = 0
    /\ model_calls = 0
    /\ tool_execs = 0
    /\ handler_calls = 0
    /\ recall_calls = 0
    /\ notices = 0
    /\ errors = 0
    /\ outcome = "idle"
    /\ script = <<>>
    /\ mark = 0
    /\ turn_start = 0
    /\ mem_log = <<>>
    /\ mem_ops = 0
    /\ writers = <<>>
    /\ EnvIdle

\* execute_function_call of remember_fact(fact)
ToolRemember ==
    /\ mem_ops < MaxMemOps
    /\ \E fact \in Facts, ok \in BOOLEAN :
         \E o \in RememberOutcomes(store, fact, ok) :
            /\ store' = o.store
            /\ mem_log' = Logged(mem_log,
                  [op |-> "remember_fact", fact |-> fact, confirm |-> FALSE,
                   threshold |-> SimilarityThreshold, top_n |-> DuplicateTopK,
                   ok |-> ok /\ o.result.status # "error", before |-> store,
                   result |-> ExecuteResult("remember_fact",
                                            [raised |-> FALSE, value |-> o.result])])
    /\ mem_ops' = mem_ops + 1
    /\ UNCHANGED <<pc, history, user_input, recalled_memories, iteration,
                   response_part, part_idx, has_function_calls, function_result>>
    /\ UNCHANGED <<obsVars, writers, envVars>>

\* execute_function_call of forget(fact, confirm, similarity_threshold, top_n)
ToolForget ==
    /\ mem_ops < MaxMemOps
    /\ \E fact \in Facts, confirm \in BOOLEAN, threshold \in Thresholds,
          top_n \in TopNs, ok \in BOOLEAN :
         LET o == ForgetOutcome(store, fact, confirm, threshold, top_n, ok)
         IN  /\ store' = o.store
             /\ mem_log' = Logged(mem_log,
                   [op |-> "forget", fact |-> fact, confirm |-> confirm,
                    threshold |-> threshold, top_n |-> top_n,
                    ok |-> ok, before |-> store,
                    result |-> ExecuteResult("forget",
                                             [raised |-> FALSE, value |-> o.result])])
    /\ mem_ops' = mem_ops + 1
    /\ UNCHANGED <<pc, history, user_input, recalled_memories, iteration,
                   response_part, part_idx, has_function_calls, function_result>>
    /\ UNCHANGED <<obsVars, writers, envVars>>

\* execute_function_call of send_system_notification(message)
ToolNotify ==
    /\ mem_ops < MaxMemOps
    /\ \E run \in Runs :
          mem_log' = Logged(mem_log,
              [op |-> "send_system_notification", fact |-> "build done",
               confirm |-> FALSE, threshold |-> 0, top_n |-> 0,
               ok |-> (run = "zero"), before |-> store,
               result |-> ExecuteResult("send_system_notification",
                             [raised |-> FALSE,
                              value |-> NotificationResult("build done", run)])])
    /\ mem_ops' = mem_ops + 1
    /\ UNCHANGED <<pc, history, store, user_input, recalled_memories, iteration,
                   response_part, part_idx, has_function_calls, function_result>>
    /\ UNCHANGED <<obsVars, writers, envVars>>

NextTools ==
    \/ ToolRemember
    \/ ToolForget
    \/ ToolNotify

SpecTools == ToolsInit /\ [][NextTools]_vars

(***************************************************************************)
(* Properties of the tools.                                                *)
(***************************************************************************)
\* the newest logged call
LastCall == mem_log[Len(mem_log)]

\* C12: a tool result as execute_function_call returns it has an "error" key
\* exactly when the underlying operation failed
C12_ErrorKeyDiscriminates ==
    mem_log # <<>>
    => ("error" \in DOMAIN LastCall.result <=> ~LastCall.ok)

\* no model turn holding a tool-call request is left without the function turn
\* of the same name right after it
CallsAnswered(h) ==
    \A i \in 1..Len(h) :
        (h[i].role = "model" /\ IsCall(h[i].parts[1]))
        => /\ i < Len(h)
           /\ h[i + 1].role = "function"
           /\ h[i + 1].parts[1].function_response.name
                = h[i].parts[1].function_call.name

\* C11: a KeyboardInterrupt arriving at any point of the loop ends run() without
\* an exception leaving it, keeps every turn appended so far, and leaves no model
\* tool-call turn without its following result turn.
C11_InterruptClean ==
    [][ (outcome # "interrupted" /\ outcome' = "interrupted")
        => /\ pc' = "done"
           /\ history' = history
           /\ CallsAnswered(history') ]_vars

\* the function-role turns of a history after position from
FunctionTurns(h, from) == { i \in (from + 1)..Len(h) : h[i].role = "function" }

\* the tool call under way has been executed and its turns are not both appended
Appending == pc \in {"append_model", "append_function"}

\* C13: an {"error": ...} result (unknown tool, failed execution) does not end the
\* turn: every execution of the user turn has its function turn in history once
\* its appends are made; right after a call part that gave an error result, history ends with the
\* model request turn and the function turn carrying that result, and the response
\* counts as containing a tool call; a response with a tool call never breaks the
\* loop; and below the ceiling another model call can be made.
C13_ErrorSurfaced ==
    /\ Cardinality(FunctionTurns(history, turn_start))
         = tool_execs - (IF Appending THEN 1 ELSE 0)
    /\ (/\ pc = "parts"
        /\ part_idx > 1
        /\ IsCall(PartAt(response_part, part_idx - 1))
        /\ "error" \in DOMAIN function_result)
       => /\ has_function_calls
          /\ Len(history) >= 2
          /\ SubSeq(history, Len(history) - 1, Len(history))
               = TurnsOfCall(PartAt(response_part, part_idx - 1), function_result)
    /\ (outcome = "break" /\ pc = "after") => NumCalls(response_part) = 0
    /\ (pc = "loop" /\ iteration < MAX_ITERATIONS) => ENABLED ModelCall

C13_Witness ==
    /\ pc = "parts"
    /\ model_calls = 2
    /\ inputs_read = 1
    /\ history[mark] = ResponseTurn("delete_everything",
                                    [error |-> "Unknown function: delete_everything"])
    /\ history[mark - 1] = Turn("model", CallUnknownArgs)

\* run() is inside the rounds of a user turn
InRounds == pc \in {"loop", "parts", "append_model", "append_function", "after"}

\* C14: reaching the iteration limit is not an error and the ceiling applies per
\* user turn: inside every user turn the counter equals the model calls made for
\* that turn (so it started from 0) and never exceeds MAX_ITERATIONS; after an
\* exhausted turn the notice has been given once, no error is reported for it, the
\* session awaits input with the turns of all its tool calls in history, and the
\* next input can be read.
C14_LimitPerTurn ==
    /\ InRounds => (iteration = model_calls /\ iteration <= MAX_ITERATIONS)
    /\ (outcome = "exhausted" /\ pc \notin {"after", "done"})
       => /\ pc = "input"
          /\ notices = 1
          /\ iteration = MAX_ITERATIONS
          /\ tool_execs >= MAX_ITERATIONS
          /\ Cardinality(FunctionTurns(history, turn_start)) = tool_execs
          /\ inputs_read < MaxInputs => ENABLED ReadInput

C14_Witness ==
    /\ inputs_read = 2
    /\ pc = "parts"
    /\ iteration = 1
    /\ model_calls = 1
    /\ Cardinality(FunctionTurns(SubSeq(history, 1, turn_start), 0)) = MAX_ITERATIONS
    /\ \A i \in (Len(SeedTurns) + 1)..turn_start :
          history[i].role = "model" => IsCall(history[i].parts[1])

\* C15: execution is sequential: the input prompt is reached only when nothing of
\* the user turn is left running or pending (every part of the last response
\* handled, every tool call the model emitted executed and answered in history);
\* a model call is made only when the response of the previous one is consumed;
\* and a tool execution starts only when the previous one is complete.
C15_Sequential ==
    /\ pc = "input" => outcome # "running"
    /\ (pc = "input" /\ outcome \in {"break", "exhausted"})
       => /\ part_idx > Len(response_part)
          /\ tool_execs = Sum(script)
          /\ Cardinality(FunctionTurns(history, turn_start)) = tool_execs
    /\ (pc = "loop" /\ model_calls > 0)
       => /\ part_idx > Len(response_part)
          /\ model_calls = Len(script)
          /\ tool_execs = Sum(script)
    /\ AtCall => Cardinality(FunctionTurns(history, turn_start)) = tool_execs

C15_Witness ==
    /\ pc = "input"
    /\ outcome = "break"
    /\ script = <<2, 0>>
    /\ tool_execs = 2
    /\ model_calls = 2

\* the call before the newest one
PrevCall == mem_log[Len(mem_log) - 1]

\* the last two logged calls are remember_fact of the same text, neither met a
\* failing embedding model or collection, and before the first no stored fact was
\* similar to the text
RememberedTwice ==
    /\ Len(mem_log) = 2
    /\ PrevCall.op = "remember_fact"
    /\ LastCall.op = "remember_fact"
    /\ PrevCall.fact = LastCall.fact
    /\ PrevCall.ok
    /\ LastCall.ok
    /\ \A d \in Range(PrevCall.before) : Sim(PrevCall.fact, d) < SimilarityThreshold

\* the positions of a text in a collection
Entries(docs, fact) == { i \in 1..Len(docs) : docs[i] = fact }

\* C16: from a store with no fact similar to the text, remember(fact) called twice
\* with the same text returns status "success" and then status "skipped", and the
\* store holds exactly one entry for the text afterwards (the first call's).
C16_RememberTwice ==
    RememberedTwice
    => /\ PrevCall.result.status = "success"
       /\ LastCall.result.status = "skipped"
       /\ Cardinality(Entries(store, LastCall.fact)) = 1
       /\ store = Append(PrevCall.before, LastCall.fact)

C16_Witness ==
    /\ RememberedTwice
    /\ PrevCall.before = <<"drinks coffee">>
    /\ LastCall.fact = "likes tea"
    /\ LastCall.result.status = "skipped"
    /\ store = <<"drinks coffee", "likes tea">>

\* the last two logged calls are a preview that reported matches and a confirmed
\* forget with the same fact, threshold and top_n that met no failure
PreviewThenConfirm ==
    /\ Len(mem_log) = 2
    /\ PrevCall.op = "forget"
    /\ LastCall.op = "forget"
    /\ ~PrevCall.confirm
    /\ LastCall.confirm
    /\ PrevCall.fact = LastCall.fact
    /\ PrevCall.threshold = LastCall.threshold
    /\ PrevCall.top_n = LastCall.top_n
    /\ PrevCall.result.status = "match_found"
    /\ LastCall.ok

\* C18: forget(fact, confirm=false) leaves the store as it was, for every fact,
\* threshold, top_n and store; and a confirmed forget with the same arguments
\* issued right after a preview deletes (and reports) at least every entry the
\* preview reported as a match.
C18_PreviewThenConfirm ==
    /\ (mem_log # <<>> /\ LastCall.op = "forget" /\ ~LastCall.confirm)
       => store = LastCall.before
    /\ PreviewThenConfirm
       => /\ LastCall.before = PrevCall.before
          /\ LastCall.result.status = "success"
          /\ \A i \in 1..Len(PrevCall.result.matches) :
                /\ PrevCall.result.matches[i].fact \in Range(LastCall.before)
                /\ PrevCall.result.matches[i].fact \notin Range(store)
                /\ PrevCall.result.matches[i].fact \in Range(LastCall.result.deleted_facts)

C18_Witness ==
    /\ PreviewThenConfirm
    /\ LastCall.before = <<"likes tea", "drinks coffee">>
    /\ LastCall.fact = "enjoys tea"
    /\ Len(PrevCall.result.matches) = 1
    /\ store = <<"drinks coffee">>

\* the newest logged call is a forget that met no failure
Forgot == mem_log # <<>> /\ LastCall.op = "forget" /\ LastCall.ok

\* the stored facts at or above the threshold of the newest call
AtOrAboveThreshold(docs) ==
    { d \in Range(docs) : Sim(LastCall.fact, d) >= LastCall.threshold }

\* the top_n most similar stored facts before the newest call
Nearest == Range(Query(LastCall.before, LastCall.fact, LastCall.top_n))

\* C19 as stated: forget in confirm mode deletes all stored matches at or above
\* the threshold, reports exactly the deleted facts and leaves every fact below
\* the threshold; forget returns "not_found" whenever no candidate clears the
\* threshold.
C19_DeletesAllMatches ==
    Forgot
    => /\ LastCall.confirm
          => /\ AtOrAboveThreshold(store) = {}
             /\ Range(LastCall.before) \ Range(store)
                  = (IF "deleted_facts" \in DOMAIN LastCall.result
                     THEN Range(LastCall.result.deleted_facts) ELSE {})
             /\ \A d \in Range(LastCall.before) :
                   Sim(LastCall.fact, d) < LastCall.threshold => d \in Range(store)
       /\ AtOrAboveThreshold(LastCall.before) \cap Nearest = {}
          => LastCall.result.status = "not_found"

\* C19: forget in confirm mode deletes exactly the facts that are among the top_n
\* most similar stored facts and at or above the threshold, reports exactly those,
\* and leaves every other fact (below the threshold, or outside the top_n) in the
\* store; when none of the top_n clears the threshold it returns "not_found" on a
\* store that holds facts and "empty" on an empty store.
C19_DeletesNearestMatches ==
    Forgot
    => /\ LastCall.confirm
          => /\ Range(store)
                  = Range(LastCall.before) \ (AtOrAboveThreshold(LastCall.before) \cap Nearest)
             /\ Range(LastCall.before) \ Range(store)
                  = (IF "deleted_facts" \in DOMAIN LastCall.result
                     THEN Range(LastCall.result.deleted_facts) ELSE {})
             /\ \A d \in Range(LastCall.before) :
                   Sim(LastCall.fact, d) < LastCall.threshold => d \in Range(store)
       /\ AtOrAboveThreshold(LastCall.before) \cap Nearest = {}
          => LastCall.result.status
               = (IF LastCall.before = <<>> THEN "empty" ELSE "not_found")

\* a confirmed forget that deleted its nearest match and left a stored fact at or
\* above the threshold
C19_Witness ==
    /\ Forgot
    /\ LastCall.confirm
    /\ LastCall.result.status = "success"
    /\ LastCall.top_n = 1
    /\ AtOrAboveThreshold(store) # {}

\* recall has returned and no model call of the user turn is made yet
Recalled == recall_calls = 1 /\ model_calls = 0

\* C17: recall never raises: once it has been called the turn goes on (no error is
\* reported, the session is not back at the prompt) with either the query's result
\* or, on an empty store or a failing embedding or query, the empty sequence; the
\* user message is then appended and the model can be called.
C17_RecallNeverRaises ==
    Recalled
    => /\ outcome = "running"
       /\ pc \in {"context", "user", "loop"}
       /\ recalled_memories \in {<<>>, Query(store, user_input, RecallTopN)}
       /\ store = <<>> => recalled_memories = <<>>
       /\ pc = "context" => recalled_memories # <<>>
       /\ pc = "loop"
          => /\ history[Len(history)] = Turn("user", TextOf(user_input))
             /\ ENABLED ModelCall

\* the query failed on a store that holds facts, and the model is about to be
\* called on the user's message
C17_Witness ==
    /\ Recalled
    /\ pc = "loop"
    /\ store # <<>>
    /\ recalled_memories = <<>>
    /\ history[Len(history)] = Turn("user", TextOf("hello"))

(***************************************************************************)
(* Two writers on one collection: remember's duplicate check (line 44) and *)
(* its collection.add (lines 51-56) are separate steps of each writer.     *)
(***************************************************************************)
Writers == {1, 2}

\* what the collection may hold when the writers start
RaceStores == { <<>>, <<"owns a cat">>, <<"drinks coffee">> }

RaceInit ==
    /\ pc = "start"
    /\ history = <<>>
    /\ store \in RaceStores
    /\ user_input = ""
    /\ recalled_memories = <<>>
    /\ iteration = 0
    /\ response_part = <<>>
    /\ part_idx = 1
    /\ has_function_calls = FALSE
    /\ function_result = <<>>
    /\ inputs_read = 0
    /\ calls_emitted = 0
    /\ model_calls = 0
    /\ tool_execs = 0
    /\ handler_calls = 0
    /\ recall_calls = 0
    /\ notices = 0
    /\ errors = 0
    /\ outcome = "idle"
    /\ script = <<>>
    /\ mark = 0
    /\ turn_start = 0
    /\ mem_log = <<>>
    /\ mem_ops = 0
    /\ writers \in [Writers -> [fact : Facts, at : {"check"}, status : {"none"}]]
    /\ EnvIdle

\* remember, line 44: `if self._is_duplicate(fact)`
WriterCheck(w) ==
    /\ writers[w].at = "check"
    /\ writers' = [writers EXCEPT ![w] =
                     IF IsDuplicate(store, writers[w].fact)
                     THEN [@ EXCEPT !.at = "done", !.status = "skipped"]
                     ELSE [@ EXCEPT !.at = "insert"]]
    /\ UNCHANGED <<codeVars, obsVars, mem_log, mem_ops, envVars>>

\* remember, lines 47-59: collection.add and the result
WriterInsert(w) ==
    /\ writers[w].at = "insert"
    /\ \E a \in AddOutcomes(store, writers[w].fact) :
          /\ store' = a.store
          /\ writers' = [writers EXCEPT ![w] =
                           [@ EXCEPT !.at = "done",
                                     !.status = IF a.raised THEN "error" ELSE "success"]]
    /\ UNCHANGED <<pc, history, user_input, recalled_memories, iteration,
                   response_part, part_idx, has_function_calls, function_result>>
    /\ UNCHANGED <<obsVars, mem_log, mem_ops, envVars>>

NextRace ==
    \/ \E w \in Writers : WriterCheck(w)
    \/ \E w \in Writers : WriterInsert(w)

SpecRace == RaceInit /\ [][NextRace]_vars

\* writer w completes its insert in this step
Inserts(w) == writers[w].at = "insert" /\ writers'[w].at = "done"

\* C20: with the check and the insert as separate steps nothing makes a writer that
\* has passed the check look again: its insert of a text not yet stored succeeds
\* and stores the text whatever the other writer has stored since the check, so two
\* writers of near-duplicate facts that both pass the check both return "success"
\* and both facts are stored.
C20_CheckThenInsert ==
    [][ \A w \in Writers :
          (Inserts(w) /\ writers[w].fact \notin Range(store))
          => /\ writers'[w].status = "success"
             /\ store' = Append(store, writers[w].fact) ]_vars

\* both writers returned "success" for near-duplicate facts and both are stored
C20_Witness ==
    /\ \A w \in Writers : writers[w].at = "done" /\ writers[w].status = "success"
    /\ writers[1].fact = "likes tea"
    /\ writers[2].fact = "enjoys tea"
    /\ Sim(writers[1].fact, writers[2].fact) >= SimilarityThreshold
    /\ {"likes tea", "enjoys tea"} \subseteq Range(store)

(***************************************************************************)
(* Properties of the input prompt.                                         *)
(***************************************************************************)
\* a step in which a line was read from the prompt
ReadStep == pc = "input" /\ inputs_read' = inputs_read + 1

\* C21: quit, exit and bye in any letter case end the session: the step that
\* reads one makes no recall and no model call, appends no turn and leaves the
\* store alone; and once the session has ended no step (no further read) is
\* possible.
C21_QuitTerminates ==
    /\ [][ (ReadStep /\ Lower(user_input') \in QuitWords)
           => /\ pc' = "done"
              /\ history' = history
              /\ store' = store
              /\ recall_calls' = recall_calls
              /\ model_calls' = model_calls
              /\ tool_execs' = tool_execs ]_vars
    /\ [](pc = "done" => (Lower(user_input) \in QuitWords /\ ~ENABLED Next))

\* the session ended on QUIT after a user turn was processed
C21_Witness ==
    /\ pc = "done"
    /\ user_input = "QUIT"
    /\ inputs_read = 2
    /\ model_calls > 0

\* C22: blank input (empty or whitespace only) is ignored: the step that reads it
\* leaves history, the store and the counts of model calls, recalls and tool
\* executions unchanged, and the session is at the prompt again.
C22_BlankIgnored ==
    [][ (ReadStep /\ Strip(user_input') = "")
        => /\ pc' = "input"
           /\ history' = history
           /\ store' = store
           /\ model_calls' = model_calls
           /\ recall_calls' = recall_calls
           /\ tool_execs' = tool_execs
           /\ outcome' = outcome ]_vars

\* a whitespace-only line was read after a processed user turn
C22_Witness ==
    /\ pc = "input"
    /\ user_input = " "
    /\ inputs_read = 2
    /\ model_calls > 0

(***************************************************************************)
(* The tools that shell out or do network or database I/O, and the trash   *)
(* cleaner (src/tools/system.py, web_fetcher.py, mysql_tools.py,           *)
(* file_system.py), called on their own.  Time is counted in ticks while   *)
(* the child process, the HTTP request or the database call has not ended. *)
(***************************************************************************)
\* the ticks that make up a tool's timeout
TimeoutTicks == 2

IOTools ==
    {"run_python_script", "execute_cli_command", "send_system_notification",
     "fetch_url_content", "create_mysql_database", "execute_mysql_command",
     "analyze_mysql_database_structure", "list_mysql_databases"}

\* the tools that pass a timeout to the call they wait on: subprocess.run(...,
\* timeout=timeout) in run_python_script and execute_cli_command, requests.get(url,
\* timeout=10) in fetch_url_content; send_system_notification calls subprocess.run
\* without one and the MySQL tools call mysql.connector.connect(**credentials)
\* and cursor.execute without one
HasTimeout(name) ==
    name \in {"run_python_script", "execute_cli_command", "fetch_url_content"}

\* the mapping a tool returns when the call it waited on ended
IOResult(name, how) ==
    IF how = "raised"
    THEN [error |-> "Failed: " \o name]
    ELSE IF name = "send_system_notification"
    THEN NotificationResult("build done", "zero")
    ELSE [success |-> TRUE]

\* execute_function_call enters the handler of an I/O tool, which starts to wait
InvokeTool ==
    /\ running.at # "waiting"
    /\ mem_ops < MaxMemOps
    /\ \E name \in IOTools :
          running' = [name |-> name, at |-> "waiting", elapsed |-> 0, result |-> <<>>]
    /\ mem_ops' = mem_ops + 1
    /\ UNCHANGED <<codeVars, obsVars, mem_log, writers, trash, cleaned, input_closed>>

\* the awaited call ends (returns or raises) and the handler returns its mapping
OperationEnds ==
    /\ running.at = "waiting"
    /\ \E how \in {"returned", "raised"} :
          running' = [running EXCEPT !.at = "returned",
                                     !.result = IOResult(running.name, how)]
    /\ UNCHANGED <<codeVars, obsVars, memVars, trash, cleaned, input_closed>>

\* time passes while the awaited call has not ended
Tick ==
    /\ running.at = "waiting"
    /\ running.elapsed < TimeoutTicks
    /\ running' = [running EXCEPT !.elapsed = @ + 1]
    /\ UNCHANGED <<codeVars, obsVars, memVars, trash, cleaned, input_closed>>

\* subprocess.TimeoutExpired / requests.exceptions.Timeout, caught by the handler
TimeoutExpires ==
    /\ running.at = "waiting"
    /\ HasTimeout(running.name)
    /\ running.elapsed = TimeoutTicks
    /\ running' = [running EXCEPT !.at = "returned",
                                  !.result = [error |-> running.name \o " timed out"]]
    /\ UNCHANGED <<codeVars, obsVars, memVars, trash, cleaned, input_closed>>

\* the files that may lie in the trash directory, with their age in days
TrashFiles ==
    { [name |-> "a.tmp", days_old |-> 40],
      [name |-> "b.log", days_old |-> 15],
      [name |-> "c.txt", days_old |-> 2] }

DayThresholds == {10, 30}

\* check_trash_bin: the files older than the cutoff
OldFiles(files, days_threshold) == { f \in files : f.days_old > days_threshold }

\* the user moves a file to the trash
TrashFile ==
    /\ \E f \in TrashFiles \ trash : trash' = trash \cup {f}
    /\ UNCHANGED <<codeVars, obsVars, memVars, running, cleaned, input_closed>>

\* clean_old_trash_files(days_threshold, confirm): every old file is unlinked
\* unless its deletion raises OSError; the user is never asked
CleanTrash ==
    /\ mem_ops < MaxMemOps
    /\ \E days_threshold \in DayThresholds, confirm \in BOOLEAN :
         LET old_files == OldFiles(trash, days_threshold)
         IN  \E failed \in SUBSET old_files :
                /\ trash' = trash \ (old_files \ failed)
                /\ cleaned' = [days_threshold |-> days_threshold,
                               confirm |-> confirm,
                               asked |-> FALSE,
                               deleted |-> old_files \ failed,
                               failed |-> failed]
    /\ mem_ops' = mem_ops + 1
    /\ UNCHANGED <<codeVars, obsVars, mem_log, writers, running, input_closed>>

NextIO ==
    \/ InvokeTool
    \/ OperationEnds
    \/ Tick
    \/ TimeoutExpires
    \/ TrashFile
    \/ CleanTrash

SpecIO == ToolsInit /\ [][NextIO]_vars

\* C23: every tool that shells out or does network or database I/O enforces a
\* bounded timeout: when the call it waits on has not ended at the time limit the
\* expiry is raised and reported as an {"error": ...} result, so the invocation
\* does not go on waiting.
C23_TimeoutEnforced ==
    (running.at = "waiting" /\ running.elapsed = TimeoutTicks)
    => ENABLED TimeoutExpires

\* C24: with confirm true, clean_old_trash_files deletes no file unless a
\* confirmation step has taken place.
C24_ConfirmBeforeDelete ==
    (cleaned # <<>> /\ cleaned.confirm /\ cleaned.deleted # {})
    => cleaned.asked

(***************************************************************************)
(* One user turn under fairness: a model call or a tool execution that has *)
(* been started returns or raises, and run() takes its next step.  No      *)
(* fairness is asked of the prompt: the user may never type.               *)
(***************************************************************************)
\* the inputs read in a fair run
MaxFairInputs == 1

ReadInputFair ==
    /\ inputs_read < MaxFairInputs
    /\ ReadInput

\* the steps run() takes by itself once an input is accepted
TurnStep ==
    \/ Recall
    \/ AppendMemoryContext
    \/ AppendUserMessage
    \/ ModelCall
    \/ ModelCallRaises
    \/ ExecuteFunctionCall
    \/ AppendModelTurn
    \/ AppendFunctionTurn
    \/ HandleTextPart
    \/ SkipPart
    \/ EndOfParts
    \/ LoopExhausted
    \/ AfterLoop

NextFair ==
    \/ RunStart
    \/ ReadInputFair
    \/ Recall
    \/ AppendMemoryContext
    \/ AppendUserMessage
    \/ ModelCall
    \/ ModelCallRaises
    \/ ExecuteFunctionCall
    \/ AppendModelTurn
    \/ AppendFunctionTurn
    \/ HandleTextPart
    \/ SkipPart
    \/ EndOfParts
    \/ LoopExhausted
    \/ AfterLoop

SpecFair == Init /\ [][NextFair]_vars /\ WF_vars(TurnStep)

\* the states of the session
AwaitingUserInput == pc = "input"
Terminated == pc = "done"
Processing == pc \notin {"start", "input", "done"}

\* C25: every user turn that enters Processing eventually leaves it, to
\* AwaitingUserInput or to Terminated, given that each model call and each tool
\* execution returns or raises; and the session only takes the transitions
\* AwaitingUserInput -> Processing -> {AwaitingUserInput, Terminated}.
C25_TurnEnds ==
    /\ Processing ~> (AwaitingUserInput \/ Terminated)
    /\ [][ /\ AwaitingUserInput => (AwaitingUserInput' \/ Processing' \/ Terminated')
           /\ Processing => (Processing' \/ AwaitingUserInput' \/ Terminated')
           /\ (AwaitingUserInput /\ Processing') => pc' = "recall"
           /\ Terminated => Terminated' ]_vars

\* a turn that went through every allowed round is back at the prompt
C25_Witness ==
    /\ AwaitingUserInput
    /\ inputs_read = 1
    /\ outcome = "exhausted"
    /\ model_calls = MAX_ITERATIONS

\* the tool-call parts of the current response that the for loop has passed
CallsPassed ==
    IF pc \in {"parts", "append_model", "append_function"}
    THEN NumCalls(SubSeq(response_part, 1, part_idx - 1))
    ELSE NumCalls(response_part)

\* the tool-call parts of the earlier responses of the user turn
CallsBefore == IF script = <<>> THEN 0 ELSE Sum(SubSeq(script, 1, Len(script) - 1))

\* C26: whatever the model answers, the model calls made for one user input never
\* exceed MAX_ITERATIONS, and a tool is executed only for a tool-call part of a
\* response received in that user turn: the executions of the turn are exactly the
\* tool-call parts the loop has passed (plus the one being appended), never more
\* than the parts received.
C26_BoundedRounds ==
    /\ model_calls <= MAX_ITERATIONS
    /\ Len(script) <= model_calls
    /\ tool_execs <= Sum(script)
    /\ (InRounds /\ outcome = "running" /\ model_calls > 0)
       => tool_execs = CallsBefore + CallsPassed + (IF Appending THEN 1 ELSE 0)
    /\ model_calls = 0 => tool_execs = 0

\* the last allowed round has been made and each round executed a tool
C26_Witness ==
    /\ pc = "loop"
    /\ model_calls = MAX_ITERATIONS
    /\ tool_execs = MAX_ITERATIONS
    /\ script = [i \in 1..MAX_ITERATIONS |-> 1]

\* the model turns after position from that carry a tool-call request
CallTurns(h, from) ==
    { i \in (from + 1)..Len(h) : h[i].role = "model" /\ IsCall(h[i].parts[1]) }

\* tool-call turns and function turns alternate in adjacent pairs of one name
Paired(h) ==
    \A i \in 1..Len(h) :
        /\ (h[i].role = "model" /\ IsCall(h[i].parts[1]))
           => /\ i < Len(h)
              /\ h[i + 1].role = "function"
              /\ h[i + 1].parts[1].function_response.name
                   = h[i].parts[1].function_call.name
        /\ h[i].role = "function"
           => /\ i > 1
              /\ h[i - 1].role = "model"
              /\ IsCall(h[i - 1].parts[1])

\* C27: whenever the loop is between two parts, between two rounds or awaiting
\* input, every model turn with a tool-call request is immediately followed by the
\* function turn of the same tool name, and every function turn immediately
\* follows such a model turn; right after a tool-call part the function turn holds
\* the result of its execution; each tool-call part passed was executed exactly
\* once; and while the two turns of a call are being appended its execution has
\* already been counted.
C27_PairedTurns ==
    /\ pc \in {"parts", "loop", "after", "input", "done"}
       => /\ Paired(history)
          /\ Cardinality(CallTurns(history, turn_start)) = tool_execs
          /\ Cardinality(FunctionTurns(history, turn_start)) = tool_execs
    /\ (pc \in {"parts", "loop", "after"} /\ outcome # "error" /\ model_calls > 0)
       => tool_execs = CallsBefore + CallsPassed
    /\ (pc = "parts" /\ part_idx > 1 /\ IsCall(PartAt(response_part, part_idx - 1)))
       => history[Len(history)]
            = ResponseTurn(PartAt(response_part, part_idx - 1).function_call.name,
                           function_result)
    /\ pc = "append_model"
       => /\ Paired(history)
          /\ Cardinality(CallTurns(history, turn_start)) = tool_execs - 1
    /\ pc = "append_function"
       => /\ Paired(SubSeq(history, 1, Len(history) - 1))
          /\ history[Len(history)] = Turn("model", PartAt(response_part, part_idx))
          /\ Cardinality(FunctionTurns(history, turn_start)) = tool_execs - 1

\* between two rounds, after a response with two tool-call parts
C27_Witness ==
    /\ pc = "loop"
    /\ script = <<2>>
    /\ tool_execs = 2
    /\ Cardinality(CallTurns(history, turn_start)) = 2
    /\ Paired(history)

\* C28: with the memory operations serialized and the store empty at first, after
\* any sequence of remember and forget calls no two stored facts have a similarity
\* at or above the remember threshold, and no two entries have the same
\* content-hash key.
C28_NoNearDuplicates ==
    \A i, j \in 1..Len(store) :
        i # j => /\ Sim(store[i], store[j]) < SimilarityThreshold
                 /\ GenerateId(store[i]) # GenerateId(store[j])

\* a fact refused earlier as a near-duplicate is stored once the fact it resembled
\* has been forgotten
C28_Witness ==
    /\ Len(mem_log) = 2
    /\ PrevCall.op = "forget"
    /\ PrevCall.result.status = "success"
    /\ PrevCall.result.deleted_facts = <<"likes tea">>
    /\ LastCall.op = "remember_fact"
    /\ LastCall.fact = "enjoys tea"
    /\ LastCall.result.status = "success"
    /\ store = <<"drinks coffee", "enjoys tea">>

(***************************************************************************)
(* The prompt on an input stream that ends: console.input (line 405) is    *)
(* inside the try block, and EOFError is an Exception (lines 468-469).     *)
(***************************************************************************)
\* the read errors counted; more are reported but not counted
MaxReadErrors == 2

\* the input stream ends
CloseInput ==
    /\ ~input_closed
    /\ input_closed' = TRUE
    /\ UNCHANGED <<codeVars, obsVars, memVars, running, trash, cleaned>>

\* line 405 raising: every read of an ended stream raises EOFError
ReadInputRaises ==
    /\ pc = "input"
    /\ input_closed
    /\ pc' = "report"
    /\ UNCHANGED <<history, store, user_input, recalled_memories, iteration,
                   response_part, part_idx, has_function_calls, function_result>>
    /\ UNCHANGED <<obsVars, memVars, envVars>>

\* lines 468-469: the error is printed and the while loop goes on
ReportInputError ==
    /\ pc = "report"
    /\ errors' = IF errors < MaxReadErrors THEN errors + 1 ELSE errors
    /\ outcome' = "error"
    /\ history' = HistoryOnError(history, turn_start)
    /\ pc' = AfterError
    /\ UNCHANGED <<store, user_input, recalled_memories, iteration, response_part,
                   part_idx, has_function_calls, function_result>>
    /\ UNCHANGED <<inputs_read, calls_emitted, model_calls, tool_execs, handler_calls,
                   recall_calls, notices, script, mark, turn_start>>
    /\ UNCHANGED <<memVars, envVars>>

NextEOF ==
    \/ RunStart
    \/ ReadInputFair
    \/ Recall
    \/ AppendMemoryContext
    \/ AppendUserMessage
    \/ ModelCall
    \/ ModelCallRaises
    \/ ExecuteFunctionCall
    \/ AppendModelTurn
    \/ AppendFunctionTurn
    \/ HandleTextPart
    \/ SkipPart
    \/ EndOfParts
    \/ LoopExhausted
    \/ AfterLoop
    \/ CloseInput
    \/ ReadInputRaises
    \/ ReportInputError

\* a read of an ended stream raises at once and run() takes its own steps; nothing
\* is asked of the user
SpecEOF ==
    /\ Init
    /\ [][NextEOF]_vars
    /\ WF_vars(RunStart)
    /\ WF_vars(TurnStep)
    /\ WF_vars(ReadInputRaises)
    /\ WF_vars(ReportInputError)

\* C29: when every read of the user input raises (the input stream has ended),
\* the session eventually terminates.
C29_ClosedInputTerminates == input_closed ~> Terminated

(***************************************************************************)
(* Properties of the tool schema.                                          *)
(***************************************************************************)
UnknownFunction(name) == [error |-> "Unknown function: " \o name]

\* C30: the tool names advertised in the schema are the keys of function_map (both
\* are built once, at construction, where the second conjunct looks at them): no
\* advertised name is answered with "Unknown function", whatever its handler does,
\* a handler is invoked for every advertised name, and a call the loop has executed
\* holds the "Unknown function" result exactly when its name is not advertised.
C30_SchemaMatchesMap ==
    /\ tools = function_map
    /\ pc = "start"
       => \A name \in tools :
             /\ InvokesHandler(name)
             /\ \A o \in HandlerOutcomes(name, NoArgs) :
                   ExecuteResult(name, o) # UnknownFunction(name)
    /\ (Appending /\ CurrentCall.name \in tools)
       => function_result # UnknownFunction(CurrentCall.name)
    /\ (Appending /\ CurrentCall.name \notin tools)
       => function_result = UnknownFunction(CurrentCall.name)

\* an advertised tool was requested and its handler's payload is the result
C30_Witness ==
    /\ pc = "append_model"
    /\ CurrentCall.name = "read_file_content"
    /\ CurrentCall.name \in tools
    /\ function_result = [file_path |-> "a.txt", content |-> "data"]

====
